---- MODULE Spec2Model ----
(***************************************************************************)
(* Download-history tracking and reconciliation of the Synology Office     *)
(* exporter: the DownloadHistoryFile store (lock, load, save, entry CRUD,  *)
(* should_download) and the exporter pass that drives it (traversal,       *)
(* removal of the outputs of documents deleted on the NAS).                *)
(*                                                                         *)
(* Several runs of the tool work on one output directory: they share the   *)
(* lock file, the history file and the output files; everything else is    *)
(* the private memory of one run.                                          *)
(***************************************************************************)
EXTENDS Integers, Sequences, FiniteSets, TLC

(***************************************************************************)
(* Bounds of the model.                                                    *)
(***************************************************************************)
\* number of runs that may be alive at the same time
MaxProcs == 2
\* number of documents one pass meets
MaxItems == 2
\* number of documents one pass meets when several runs are alive
MaxConcurrentItems == 1

Procs == 1..MaxProcs

(***************************************************************************)
(* Program constants.                                                      *)
(***************************************************************************)
HISTORY_VERSION == 1
HISTORY_MAGIC == "SYNOLOGY_OFFICE_EXPORTER"

(***************************************************************************)
(* Names.  A name is a sequence of chunks; its suffix is its last chunk.   *)
(***************************************************************************)
PathA == <<"/a", ".odoc">>
PathB == <<"/b", ".osheet">>
PathC == <<"/c", ".txt">>

RemotePaths == {PathA, PathB, PathC}

Hashes == {"h1", "h2"}
FileIds == {"f1"}

NoName == << >>

\* an extension_mapping with two of its values exchanged
extension_mapping_swapped ==
    [e \in {".osheet", ".odoc", ".oslides"} |->
        CASE e = ".osheet" -> ".docx"
          [] e = ".odoc" -> ".xlsx"
          [] e = ".oslides" -> ".pptx"]

\* extension_mapping of get_offline_name
extension_mapping ==
    [e \in {".osheet", ".odoc", ".oslides"} |->
        CASE e = ".osheet" -> ".xlsx"
          [] e = ".odoc" -> ".docx"
          [] e = ".oslides" -> ".pptx"]

endswith(name, ext) == Len(name) > 0 /\ name[Len(name)] = ext

\* get_offline_name: the name with its Synology suffix replaced by the
\* Microsoft one, NoName (None) when the name has no Synology suffix
get_offline_name(name) ==
    IF \E ext \in DOMAIN extension_mapping : endswith(name, ext)
    THEN LET ext == CHOOSE x \in DOMAIN extension_mapping : endswith(name, x)
         IN  SubSeq(name, 1, Len(name) - 1) \o <<extension_mapping[ext]>>
    ELSE NoName

ConvertiblePaths == {p \in RemotePaths : get_offline_name(p) # NoName}
OutputPaths == {get_offline_name(p) : p \in ConvertiblePaths}

(***************************************************************************)
(* History entries and the persisted file.                                 *)
(***************************************************************************)
Entry(file_id, hash_value) == [file_id |-> file_id, hash |-> hash_value]
Entries == {Entry(f, h) : f \in FileIds, h \in Hashes}

EmptyHistory == [q \in {} |-> Entry("f1", "h1")]

\* the mappings path -> entry over the convertible paths
Histories == UNION {[S -> Entries] : S \in SUBSET ConvertiblePaths}

\* content of <output_dir>/.download_history.json
\*   kind: "absent" (no file), "garbage" (json.load raises),
\*         "plain" (parses, but is no dict with a '_meta' key),
\*         "meta" (a dict with '_meta')
\*   magic: '_meta'.magic, "missing" when the key is absent
\*   version: '_meta'.version, NoVersion when the key is absent
NoVersion == -1
FileContent(kind, magic, version, files) ==
    [kind |-> kind, magic |-> magic, version |-> version, files |-> files]

NoFile == FileContent("absent", "missing", NoVersion, EmptyHistory)
GarbageFile == FileContent("garbage", "missing", NoVersion, EmptyHistory)
PlainFile == FileContent("plain", "missing", NoVersion, EmptyHistory)
MetaFile(magic, version, files) == FileContent("meta", magic, version, files)

\* a _build_metadata that stamps the version after the one load_history accepts
build_metadata_next == [version |-> HISTORY_VERSION + 1, magic |-> HISTORY_MAGIC]

\* _build_metadata: the '_meta' section save_history writes
build_metadata == [version |-> HISTORY_VERSION, magic |-> HISTORY_MAGIC]


(***************************************************************************)
(* State.                                                                  *)
(***************************************************************************)
VARIABLES
    \* shared: the output directory and the operating system
    lock_file,              \* the runs holding the exclusive lock on .download_history.lock
    download_history_file,  \* content of .download_history.json
    output_files,           \* the converted files present under output_dir
    \* DownloadHistoryFile, one per run
    lock,                   \* self.lock: "None" or "FileLock"
    download_history,       \* self.download_history
    force_download,         \* self.force_download
    skip_history,           \* self.skip_history
    \* the exporter, one per run
    current_file_paths,     \* paths seen in this pass
    had_exceptions,         \* a recoverable error happened
    total_found_files,
    skipped_files,
    downloaded_files,
    deleted_files,
    \* control
    pc,                     \* where the run is
    exc_type,               \* the exception the run body left with, "None" if none
    item,                   \* the item the traversal met last
    save_calls,             \* the calls of save_history this run has made
    exit_status,            \* what main returned, once it has
    \* the walk over the remote tree, one per run
    pending,                \* the items of the listings still to be processed
    resp                    \* the response of the last list_folder

store_vars == <<lock, download_history, force_download, skip_history>>
run_vars == <<current_file_paths, had_exceptions, total_found_files,
              skipped_files, downloaded_files, deleted_files>>
shared_vars == <<lock_file, download_history_file, output_files>>
ctl_vars == <<pc, exc_type, item, save_calls, exit_status>>
walk_vars == <<pending, resp>>
vars == <<shared_vars, store_vars, run_vars, ctl_vars, walk_vars>>

\* main has not returned
NoStatus == -1

NoItem == [path |-> NoName, file_id |-> "none", hash |-> "none", encrypted |-> FALSE]
Item(path, file_id, hash, encrypted) ==
    [path |-> path, file_id |-> file_id, hash |-> hash, encrypted |-> encrypted]

(***************************************************************************)
(* DownloadHistoryFile: operations on one store.                           *)
(***************************************************************************)

\* a get_history_keys that reports every path the store could hold
get_history_keys_all(history) == ConvertiblePaths

\* get_history_keys
get_history_keys(history) == DOMAIN history

\* an add_history_entry that keeps the entry a path already has
add_history_entry_insert_only(history, file_path, file_id, hash_value) ==
    [q \in DOMAIN history \cup {file_path} |->
        IF q \in DOMAIN history THEN history[q] ELSE Entry(file_id, hash_value)]

\* an add_history_entry that starts the mapping over
add_history_entry_replace_all(history, file_path, file_id, hash_value) ==
    [q \in {file_path} |-> Entry(file_id, hash_value)]

\* add_history_entry: upsert
add_history_entry(history, file_path, file_id, hash_value) ==
    [q \in DOMAIN history \cup {file_path} |->
        IF q = file_path THEN Entry(file_id, hash_value) ELSE history[q]]

\* a remove_history_entry that leaves the entry in place
remove_history_entry_keep(history, file_path) == history

\* remove_history_entry: no-op when absent
remove_history_entry(history, file_path) ==
    IF file_path \in DOMAIN history
    THEN [q \in DOMAIN history \ {file_path} |-> history[q]]
    ELSE history

\* a should_download that compares the hash with the stored file id
should_download_compares_id(history, force, file_path, hash_value) ==
    IF force THEN TRUE
    ELSE IF file_path \notin DOMAIN history THEN TRUE
    ELSE history[file_path].file_id # hash_value

\* a should_download that skips every path the history knows
should_download_known(history, force, file_path, hash_value) ==
    IF force THEN TRUE
    ELSE file_path \notin DOMAIN history

\* a should_download that does not look at force_download
should_download_unforced(history, force, file_path, hash_value) ==
    IF file_path \notin DOMAIN history THEN TRUE
    ELSE history[file_path].hash # hash_value

\* should_download
should_download(history, force, file_path, hash_value) ==
    IF force THEN TRUE
    ELSE IF file_path \notin DOMAIN history THEN TRUE
    ELSE history[file_path].hash # hash_value

\* a lock_history whose acquire succeeds whoever holds the lock
lock_history_shared(p, skip, lock_obj, holders) ==
    IF skip
    THEN [raised |-> FALSE, lock |-> lock_obj, lock_file |-> holders]
    ELSE [raised |-> FALSE, lock |-> "FileLock", lock_file |-> holders \cup {p}]

\* a lock_history that swallows the Timeout of a failed acquire
lock_history_swallow(p, skip, lock_obj, holders) ==
    IF skip
    THEN [raised |-> FALSE, lock |-> lock_obj, lock_file |-> holders]
    ELSE IF holders \ {p} = {}
         THEN [raised |-> FALSE, lock |-> "FileLock", lock_file |-> holders \cup {p}]
         ELSE [raised |-> FALSE, lock |-> "FileLock", lock_file |-> holders]

\* lock_history: non-blocking acquire of the exclusive lock; raises when
\* another run holds it.  holders is the set of runs holding the lock.
lock_history(p, skip, lock_obj, holders) ==
    IF skip
    THEN [raised |-> FALSE, lock |-> lock_obj, lock_file |-> holders]
    ELSE IF holders \ {p} = {}
         THEN [raised |-> FALSE, lock |-> "FileLock", lock_file |-> holders \cup {p}]
         ELSE [raised |-> TRUE, lock |-> "FileLock", lock_file |-> holders]

\* an unlock_history that never releases
unlock_history_never(p, lock_obj, holders) == holders

\* unlock_history: releases the lock this store holds, if it has a lock object
unlock_history(p, lock_obj, holders) ==
    IF lock_obj # "None" THEN holders \ {p} ELSE holders

\* meta.get('version', 0)
meta_version(file) == IF file.version = NoVersion THEN 0 ELSE file.version

\* a load_history that does not verify the magic number
load_history_unchecked_magic(history, skip, file) ==
    IF skip \/ file.kind = "absent"
    THEN [raised |-> FALSE, download_history |-> EmptyHistory]
    ELSE IF file.kind = "garbage"
    THEN [raised |-> TRUE, download_history |-> history]
    ELSE IF file.kind = "meta"
    THEN IF meta_version(file) > HISTORY_VERSION
         THEN [raised |-> TRUE, download_history |-> history]
         ELSE [raised |-> FALSE, download_history |-> file.files]
    ELSE [raised |-> FALSE, download_history |-> history]

\* a load_history that refuses its own version (>= for >)
load_history_version_strict(history, skip, file) ==
    IF skip \/ file.kind = "absent"
    THEN [raised |-> FALSE, download_history |-> EmptyHistory]
    ELSE IF file.kind = "garbage"
    THEN [raised |-> TRUE, download_history |-> history]
    ELSE IF file.kind = "meta"
    THEN IF file.magic # HISTORY_MAGIC
         THEN [raised |-> TRUE, download_history |-> history]
         ELSE IF meta_version(file) >= HISTORY_VERSION
         THEN [raised |-> TRUE, download_history |-> history]
         ELSE [raised |-> FALSE, download_history |-> file.files]
    ELSE [raised |-> FALSE, download_history |-> history]

\* a load_history that logs a json.load error and goes on with an empty mapping
load_history_swallows_garbage(history, skip, file) ==
    IF skip \/ file.kind = "absent"
    THEN [raised |-> FALSE, download_history |-> EmptyHistory]
    ELSE IF file.kind = "garbage"
    THEN [raised |-> FALSE, download_history |-> EmptyHistory]
    ELSE IF file.kind = "meta"
    THEN IF file.magic # HISTORY_MAGIC
         THEN [raised |-> TRUE, download_history |-> history]
         ELSE IF meta_version(file) > HISTORY_VERSION
         THEN [raised |-> TRUE, download_history |-> history]
         ELSE [raised |-> FALSE, download_history |-> file.files]
    ELSE [raised |-> FALSE, download_history |-> history]

\* a load_history that reads the file although skip_history is set
load_history_ignores_skip(history, skip, file) ==
    IF file.kind = "absent"
    THEN [raised |-> FALSE, download_history |-> EmptyHistory]
    ELSE IF file.kind = "garbage"
    THEN [raised |-> TRUE, download_history |-> history]
    ELSE IF file.kind = "meta"
    THEN IF file.magic # HISTORY_MAGIC
         THEN [raised |-> TRUE, download_history |-> history]
         ELSE IF meta_version(file) > HISTORY_VERSION
         THEN [raised |-> TRUE, download_history |-> history]
         ELSE [raised |-> FALSE, download_history |-> file.files]
    ELSE [raised |-> FALSE, download_history |-> history]

\* load_history: the mapping after the call and whether it raised
load_history(history, skip, file) ==
    IF skip \/ file.kind = "absent"
    THEN [raised |-> FALSE, download_history |-> EmptyHistory]
    ELSE IF file.kind = "garbage"
    THEN [raised |-> TRUE, download_history |-> history]
    ELSE IF file.kind = "meta"
    THEN IF file.magic # HISTORY_MAGIC
         THEN [raised |-> TRUE, download_history |-> history]
         ELSE IF meta_version(file) > HISTORY_VERSION
         THEN [raised |-> TRUE, download_history |-> history]
         ELSE [raised |-> FALSE, download_history |-> file.files]
    ELSE [raised |-> FALSE, download_history |-> history]

\* a save_history that writes whatever skip_history says
save_history_ignores_skip(history, skip, file, io) ==
    CASE io = "ok" ->
             MetaFile(build_metadata.magic, build_metadata.version, history)
      [] io = "fail_before" -> file
      [] io = "fail_partial" -> GarbageFile

\* save_history: the file after the call.  io is what the file system does:
\* "ok", "fail_before" (makedirs or open fails), "fail_partial" (the write
\* fails after open truncated the file).  Every failure is logged and swallowed.
save_history(history, skip, file, io) ==
    IF skip THEN file
    ELSE CASE io = "ok" ->
                MetaFile(build_metadata.magic, build_metadata.version, history)
           [] io = "fail_before" -> file
           [] io = "fail_partial" -> GarbageFile

SaveOutcomes == {"ok", "fail_before", "fail_partial"}


(***************************************************************************)
(* The exporter: one pass.                                                 *)
(***************************************************************************)

\* os.path.join(output_dir, offline_name.lstrip('/')): the output file of a path
output_path(file_path) == get_offline_name(file_path)

\* a difference that forgets what the pass has seen
deleted_paths_all(history, seen) == get_history_keys(history)

\* the paths of the history the pass has not seen
deleted_paths(history, seen) == get_history_keys(history) \ seen

\* a loop body that counts a path whose output file is already missing
remove_deleted_file_counts_missing(st, file_path, failing) ==
    LET out == output_path(file_path)
        exists == out \in st.output_files
        fails == exists /\ file_path \in failing
    IN  [download_history |-> remove_history_entry(st.download_history, file_path),
         output_files |-> IF exists /\ ~fails THEN st.output_files \ {out}
                          ELSE st.output_files,
         deleted |-> IF ~fails THEN st.deleted + 1 ELSE st.deleted,
         raised |-> st.raised \/ fails]

\* a loop body that keeps the history entry when os.remove raises
remove_deleted_file_keeps_failed(st, file_path, failing) ==
    LET out == output_path(file_path)
        exists == out \in st.output_files
        fails == exists /\ file_path \in failing
    IN  [download_history |-> IF fails THEN st.download_history
                              ELSE remove_history_entry(st.download_history, file_path),
         output_files |-> IF exists /\ ~fails THEN st.output_files \ {out}
                          ELSE st.output_files,
         deleted |-> IF exists /\ ~fails THEN st.deleted + 1 ELSE st.deleted,
         raised |-> st.raised \/ fails]

\* the body of the loop of _remove_deleted_files for one path: remove the
\* output file if it exists (counted; a failing os.remove is caught and
\* flagged), then remove the history entry
remove_deleted_file(st, file_path, failing) ==
    LET out == output_path(file_path)
        exists == out \in st.output_files
        fails == exists /\ file_path \in failing
    IN  [download_history |-> remove_history_entry(st.download_history, file_path),
         output_files |-> IF exists /\ ~fails THEN st.output_files \ {out}
                          ELSE st.output_files,
         deleted |-> IF exists /\ ~fails THEN st.deleted + 1 ELSE st.deleted,
         raised |-> st.raised \/ fails]

RECURSIVE remove_deleted_loop(_, _, _)
remove_deleted_loop(todo, st, failing) ==
    IF todo = {} THEN st
    ELSE LET q == CHOOSE x \in todo : TRUE
         IN  remove_deleted_loop(todo \ {q}, remove_deleted_file(st, q, failing), failing)

\* _remove_deleted_files: for every path of the history the pass has not
\* seen, remove its output file if there is one, and its history entry.
\* failing: the paths whose os.remove raises.
remove_deleted_files(history, seen, files, failing) ==
    remove_deleted_loop(deleted_paths(history, seen),
                        [download_history |-> history, output_files |-> files,
                         deleted |-> 0, raised |-> FALSE],
                        failing)

\* an __exit__ that looks for deleted files whatever had_exceptions says
may_remove_ignoring_had(exc, had) == exc = "None"

\* an __exit__ that looks for deleted files whatever exception it is given
may_remove_ignoring_exc(exc, had) == ~had

\* whether __exit__ looks for deleted files
may_remove_deleted_files(exc, had) == exc = "None" /\ ~had

(***************************************************************************)
(* Initial state: no run has started; the output directory holds what      *)
(* earlier runs, other programs or the user left there.                    *)
(***************************************************************************)
SampleHistory ==
    [q \in {PathA, PathB} |-> IF q = PathA THEN Entry("f1", "h1") ELSE Entry("f1", "h2")]

InitialHistoryFiles ==
    {NoFile, GarbageFile, PlainFile,
     MetaFile(HISTORY_MAGIC, HISTORY_VERSION, SampleHistory),
     MetaFile(HISTORY_MAGIC, NoVersion, SampleHistory),
     MetaFile(HISTORY_MAGIC, HISTORY_VERSION - 1, SampleHistory),
     MetaFile(HISTORY_MAGIC, HISTORY_VERSION + 1, SampleHistory),
     MetaFile("OTHER", HISTORY_VERSION, SampleHistory),
     MetaFile("missing", HISTORY_VERSION, SampleHistory)}

Init ==
    /\ lock_file = {}
    /\ download_history_file \in InitialHistoryFiles
    /\ output_files \in SUBSET OutputPaths
    /\ lock = [p \in Procs |-> "None"]
    /\ download_history = [p \in Procs |-> EmptyHistory]
    /\ force_download = [p \in Procs |-> FALSE]
    /\ skip_history = [p \in Procs |-> FALSE]
    /\ current_file_paths = [p \in Procs |-> {}]
    /\ had_exceptions = [p \in Procs |-> FALSE]
    /\ total_found_files = [p \in Procs |-> 0]
    /\ skipped_files = [p \in Procs |-> 0]
    /\ downloaded_files = [p \in Procs |-> 0]
    /\ deleted_files = [p \in Procs |-> 0]
    /\ pc = [p \in Procs |-> "idle"]
    /\ exc_type = [p \in Procs |-> "None"]
    /\ item = [p \in Procs |-> NoItem]
    /\ save_calls = [p \in Procs |-> 0]
    /\ exit_status = [p \in Procs |-> NoStatus]
    /\ pending = [p \in Procs |-> << >>]
    /\ resp = [p \in Procs |-> "none"]

(***************************************************************************)
(* Actions of run p.                                                       *)
(***************************************************************************)

\* the status main returns: 1 when an exception left the with statement
\* (the lock error, the load error, the exception of the body), 0 otherwise
main(raised) == IF raised THEN 1 ELSE 0

\* an __enter__ that runs __exit__ when load_history raises: the mapping,
\* empty, is saved over the file that could not be loaded
Enter_exits_on_load_error(p, force, skip) ==
    /\ pc[p] = "idle"
    /\ force_download' = [force_download EXCEPT ![p] = force]
    /\ skip_history' = [skip_history EXCEPT ![p] = skip]
    /\ LET l == lock_history(p, skip, "None", lock_file)
           r == load_history(EmptyHistory, skip, download_history_file)
       IN  /\ lock' = [lock EXCEPT ![p] = l.lock]
           /\ lock_file' = l.lock_file
           /\ IF l.raised
              THEN /\ pc' = [pc EXCEPT ![p] = "lock_error"]
                   /\ download_history' = [download_history EXCEPT ![p] = EmptyHistory]
                   /\ UNCHANGED download_history_file
              ELSE /\ pc' = [pc EXCEPT ![p] = IF r.raised THEN "load_error" ELSE "traversing"]
                   /\ download_history' = [download_history EXCEPT ![p] = r.download_history]
                   /\ download_history_file' =
                          IF r.raised
                          THEN save_history(EmptyHistory, skip, download_history_file, "ok")
                          ELSE download_history_file
    /\ exit_status' = [exit_status EXCEPT ![p] =
           IF pc'[p] = "traversing" THEN NoStatus ELSE main(TRUE)]
    /\ UNCHANGED <<output_files, run_vars, exc_type, item, save_calls>>

\* `with SynologyOfficeExporter(...) as exporter`: __init__ of the exporter
\* and of its DownloadHistoryFile, then __enter__: lock_history, then
\* load_history; an exception of either leaves the with statement without
\* running its body or __exit__, and main returns
Enter(p, force, skip) ==
    /\ pc[p] = "idle"
    /\ force_download' = [force_download EXCEPT ![p] = force]
    /\ skip_history' = [skip_history EXCEPT ![p] = skip]
    /\ LET l == lock_history(p, skip, "None", lock_file)
           r == load_history(EmptyHistory, skip, download_history_file)
       IN  /\ lock' = [lock EXCEPT ![p] = l.lock]
           /\ lock_file' = l.lock_file
           /\ IF l.raised
              THEN /\ pc' = [pc EXCEPT ![p] = "lock_error"]
                   /\ download_history' = [download_history EXCEPT ![p] = EmptyHistory]
              ELSE /\ pc' = [pc EXCEPT ![p] = IF r.raised THEN "load_error" ELSE "traversing"]
                   /\ download_history' = [download_history EXCEPT ![p] = r.download_history]
    /\ exit_status' = [exit_status EXCEPT ![p] =
           IF pc'[p] = "traversing" THEN NoStatus ELSE main(TRUE)]
    /\ UNCHANGED <<download_history_file, output_files, run_vars, exc_type, item,
                   save_calls>>

\* what fetching and writing one document does:
\*   "ok", "fetch_fail" (the download raises; nothing is written),
\*   "write_fail" (the write raises after the output file was opened)
FetchOutcomes == {"ok", "fetch_fail", "write_fail"}

\* a _process_document that records the paths it tries to download only
ProcessDocument_tracks_downloads(p, file_path, file_id, hash_value, io) ==
    /\ pc[p] = "traversing"
    /\ item' = [item EXCEPT ![p] = Item(file_path, file_id, hash_value, FALSE)]
    /\ total_found_files' = [total_found_files EXCEPT ![p] = @ + 1]
    /\ current_file_paths' = [current_file_paths EXCEPT ![p] =
           IF should_download(download_history[p], force_download[p], file_path, hash_value)
           THEN @ \cup {file_path} ELSE @]
    /\ IF ~should_download(download_history[p], force_download[p], file_path, hash_value)
       THEN /\ skipped_files' = [skipped_files EXCEPT ![p] = @ + 1]
            /\ UNCHANGED <<download_history, output_files, downloaded_files, had_exceptions>>
       ELSE IF get_offline_name(file_path) = NoName
       THEN UNCHANGED <<download_history, output_files, downloaded_files, had_exceptions,
                        skipped_files>>
       ELSE CASE io = "ok" ->
                   /\ output_files' = output_files \cup {output_path(file_path)}
                   /\ download_history' = [download_history EXCEPT ![p] =
                          add_history_entry(@, file_path, file_id, hash_value)]
                   /\ downloaded_files' = [downloaded_files EXCEPT ![p] = @ + 1]
                   /\ UNCHANGED <<had_exceptions, skipped_files>>
              [] io = "fetch_fail" ->
                   /\ had_exceptions' = [had_exceptions EXCEPT ![p] = TRUE]
                   /\ UNCHANGED <<download_history, output_files, downloaded_files,
                                  skipped_files>>
              [] io = "write_fail" ->
                   /\ had_exceptions' = [had_exceptions EXCEPT ![p] = TRUE]
                   /\ output_files' = output_files \cup {output_path(file_path)}
                   /\ UNCHANGED <<download_history, downloaded_files, skipped_files>>
    /\ UNCHANGED <<lock_file, download_history_file, lock, force_download, skip_history,
                   deleted_files, pc, exc_type, save_calls, exit_status>>

\* a _process_document that counts a download before it fetches
ProcessDocument_counts_attempts(p, file_path, file_id, hash_value, io) ==
    /\ pc[p] = "traversing"
    /\ item' = [item EXCEPT ![p] = Item(file_path, file_id, hash_value, FALSE)]
    /\ total_found_files' = [total_found_files EXCEPT ![p] = @ + 1]
    /\ current_file_paths' = [current_file_paths EXCEPT ![p] = @ \cup {file_path}]
    /\ IF ~should_download(download_history[p], force_download[p], file_path, hash_value)
       THEN /\ skipped_files' = [skipped_files EXCEPT ![p] = @ + 1]
            /\ UNCHANGED <<download_history, output_files, downloaded_files, had_exceptions>>
       ELSE IF get_offline_name(file_path) = NoName
       THEN UNCHANGED <<download_history, output_files, downloaded_files, had_exceptions,
                        skipped_files>>
       ELSE CASE io = "ok" ->
                   /\ output_files' = output_files \cup {output_path(file_path)}
                   /\ download_history' = [download_history EXCEPT ![p] =
                          add_history_entry(@, file_path, file_id, hash_value)]
                   /\ downloaded_files' = [downloaded_files EXCEPT ![p] = @ + 1]
                   /\ UNCHANGED <<had_exceptions, skipped_files>>
              [] io = "fetch_fail" ->
                   /\ had_exceptions' = [had_exceptions EXCEPT ![p] = TRUE]
                   /\ downloaded_files' = [downloaded_files EXCEPT ![p] = @ + 1]
                   /\ UNCHANGED <<download_history, output_files, skipped_files>>
              [] io = "write_fail" ->
                   /\ had_exceptions' = [had_exceptions EXCEPT ![p] = TRUE]
                   /\ output_files' = output_files \cup {output_path(file_path)}
                   /\ downloaded_files' = [downloaded_files EXCEPT ![p] = @ + 1]
                   /\ UNCHANGED <<download_history, skipped_files>>
    /\ UNCHANGED <<lock_file, download_history_file, lock, force_download, skip_history,
                   deleted_files, pc, exc_type, save_calls, exit_status>>

\* _process_item for a document that is not encrypted, then _process_document
ProcessDocument(p, file_path, file_id, hash_value, io) ==
    /\ pc[p] = "traversing"
    /\ item' = [item EXCEPT ![p] = Item(file_path, file_id, hash_value, FALSE)]
    /\ total_found_files' = [total_found_files EXCEPT ![p] = @ + 1]
    /\ current_file_paths' = [current_file_paths EXCEPT ![p] = @ \cup {file_path}]
    /\ IF ~should_download(download_history[p], force_download[p], file_path, hash_value)
       THEN /\ skipped_files' = [skipped_files EXCEPT ![p] = @ + 1]
            /\ UNCHANGED <<download_history, output_files, downloaded_files, had_exceptions>>
       ELSE IF get_offline_name(file_path) = NoName
       THEN UNCHANGED <<download_history, output_files, downloaded_files, had_exceptions,
                        skipped_files>>
       ELSE CASE io = "ok" ->
                   /\ output_files' = output_files \cup {output_path(file_path)}
                   /\ download_history' = [download_history EXCEPT ![p] =
                          add_history_entry(@, file_path, file_id, hash_value)]
                   /\ downloaded_files' = [downloaded_files EXCEPT ![p] = @ + 1]
                   /\ UNCHANGED <<had_exceptions, skipped_files>>
              [] io = "fetch_fail" ->
                   /\ had_exceptions' = [had_exceptions EXCEPT ![p] = TRUE]
                   /\ UNCHANGED <<download_history, output_files, downloaded_files,
                                  skipped_files>>
              [] io = "write_fail" ->
                   /\ had_exceptions' = [had_exceptions EXCEPT ![p] = TRUE]
                   /\ output_files' = output_files \cup {output_path(file_path)}
                   /\ UNCHANGED <<download_history, downloaded_files, skipped_files>>
    /\ UNCHANGED <<lock_file, download_history_file, lock, force_download, skip_history,
                   deleted_files, pc, exc_type, save_calls, exit_status>>

\* _process_item for an encrypted document: skipped, logged
ProcessEncrypted(p, file_path, file_id, hash_value) ==
    /\ pc[p] = "traversing"
    /\ item' = [item EXCEPT ![p] = Item(file_path, file_id, hash_value, TRUE)]
    /\ UNCHANGED <<shared_vars, store_vars, run_vars, pc, exc_type, save_calls, exit_status>>

\* a failing listing that is flagged and raised again to the caller
ListingFails_propagates(p) ==
    /\ pc[p] = "traversing"
    /\ pc' = [pc EXCEPT ![p] = "exiting"]
    /\ exc_type' = [exc_type EXCEPT ![p] = "Exception"]
    /\ item' = [item EXCEPT ![p] = NoItem]
    /\ had_exceptions' = [had_exceptions EXCEPT ![p] = TRUE]
    /\ UNCHANGED <<shared_vars, store_vars, current_file_paths, total_found_files,
                   skipped_files, downloaded_files, deleted_files, save_calls,
                   exit_status>>

\* a failing listing that is logged and nothing more
ListingFails_unflagged(p) ==
    /\ pc[p] = "traversing"
    /\ item' = [item EXCEPT ![p] = NoItem]
    /\ UNCHANGED <<shared_vars, store_vars, run_vars, pc, exc_type, save_calls,
                   exit_status>>

\* a listing (a folder, the shared items, the team folders) fails
ListingFails(p) ==
    /\ pc[p] = "traversing"
    /\ item' = [item EXCEPT ![p] = NoItem]
    /\ had_exceptions' = [had_exceptions EXCEPT ![p] = TRUE]
    /\ UNCHANGED <<shared_vars, store_vars, current_file_paths, total_found_files,
                   skipped_files, downloaded_files, deleted_files, pc, exc_type,
                   save_calls, exit_status>>

\* the body of the with statement ends: normally, or by an exception that
\* propagates to __exit__
BodyEnds(p, exc) ==
    /\ pc[p] = "traversing"
    /\ pc' = [pc EXCEPT ![p] = "exiting"]
    /\ exc_type' = [exc_type EXCEPT ![p] = exc]
    /\ item' = [item EXCEPT ![p] = NoItem]
    /\ UNCHANGED <<shared_vars, store_vars, run_vars, save_calls, exit_status>>

\* an __exit__ that deletes the output files and leaves the mapping as it
\* was: save_history writes the removed paths
RemoveDeletedFiles_files_only(p, failing) ==
    /\ pc[p] = "exiting"
    /\ pc' = [pc EXCEPT ![p] = "saving"]
    /\ IF may_remove_deleted_files(exc_type[p], had_exceptions[p])
       THEN LET r == remove_deleted_files(download_history[p], current_file_paths[p],
                                          output_files, failing)
            IN  /\ UNCHANGED download_history
                /\ output_files' = r.output_files
                /\ deleted_files' = [deleted_files EXCEPT ![p] = @ + r.deleted]
                /\ had_exceptions' = [had_exceptions EXCEPT ![p] = @ \/ r.raised]
       ELSE UNCHANGED <<download_history, output_files, deleted_files, had_exceptions>>
    /\ UNCHANGED <<lock_file, download_history_file, lock, force_download, skip_history,
                   current_file_paths, total_found_files, skipped_files, downloaded_files,
                   exc_type, item, save_calls, exit_status>>

\* __exit__ of the exporter, first part: _remove_deleted_files, unless the
\* pass had an exception
RemoveDeletedFiles(p, failing) ==
    /\ pc[p] = "exiting"
    /\ pc' = [pc EXCEPT ![p] = "saving"]
    /\ IF may_remove_deleted_files(exc_type[p], had_exceptions[p])
       THEN LET r == remove_deleted_files(download_history[p], current_file_paths[p],
                                          output_files, failing)
            IN  /\ download_history' = [download_history EXCEPT ![p] = r.download_history]
                /\ output_files' = r.output_files
                /\ deleted_files' = [deleted_files EXCEPT ![p] = @ + r.deleted]
                /\ had_exceptions' = [had_exceptions EXCEPT ![p] = @ \/ r.raised]
       ELSE UNCHANGED <<download_history, output_files, deleted_files, had_exceptions>>
    /\ UNCHANGED <<lock_file, download_history_file, lock, force_download, skip_history,
                   current_file_paths, total_found_files, skipped_files, downloaded_files,
                   exc_type, item, save_calls, exit_status>>

\* an __exit__ that releases the lock first and saves after
SaveHistory_unlocked(p, io) ==
    /\ pc[p] = "saving"
    /\ pc' = [pc EXCEPT ![p] = "unlocking"]
    /\ save_calls' = [save_calls EXCEPT ![p] = @ + 1]
    /\ lock_file' = unlock_history(p, lock[p], lock_file)
    /\ download_history_file' =
           save_history(download_history[p], skip_history[p], download_history_file, io)
    /\ UNCHANGED <<output_files, store_vars, run_vars, exc_type, item, exit_status>>

\* an __exit__ that saves only when the body left without an exception
SaveHistory_unless_exception(p, io) ==
    /\ pc[p] = "saving"
    /\ pc' = [pc EXCEPT ![p] = "unlocking"]
    /\ IF exc_type[p] = "None"
       THEN /\ save_calls' = [save_calls EXCEPT ![p] = @ + 1]
            /\ download_history_file' =
                   save_history(download_history[p], skip_history[p],
                                download_history_file, io)
       ELSE UNCHANGED <<save_calls, download_history_file>>
    /\ UNCHANGED <<lock_file, output_files, store_vars, run_vars, exc_type, item,
                   exit_status>>

\* an __exit__ whose save_history lets its exception out: the exception
\* replaces the one the body left with, the finally part still runs
SaveHistory_raising(p, io) ==
    /\ pc[p] = "saving"
    /\ pc' = [pc EXCEPT ![p] = "unlocking"]
    /\ save_calls' = [save_calls EXCEPT ![p] = @ + 1]
    /\ download_history_file' =
           save_history(download_history[p], skip_history[p], download_history_file, io)
    /\ exc_type' = [exc_type EXCEPT ![p] =
           IF ~skip_history[p] /\ io # "ok" THEN "Exception" ELSE @]
    /\ UNCHANGED <<lock_file, output_files, store_vars, run_vars, item, exit_status>>

\* __exit__ of the store, try part: save_history, which is called whatever
\* exception __exit__ is given and lets no exception out
SaveHistory(p, io) ==
    /\ pc[p] = "saving"
    /\ pc' = [pc EXCEPT ![p] = "unlocking"]
    /\ save_calls' = [save_calls EXCEPT ![p] = @ + 1]
    /\ download_history_file' =
           save_history(download_history[p], skip_history[p], download_history_file, io)
    /\ UNCHANGED <<lock_file, output_files, store_vars, run_vars, exc_type, item,
                   exit_status>>

\* an __exit__ without the finally: the lock is released only when the body
\* of the with statement raised nothing
UnlockHistory_unless_exception(p) ==
    /\ pc[p] = "unlocking"
    /\ pc' = [pc EXCEPT ![p] = "closed"]
    /\ lock_file' = IF exc_type[p] = "None"
                    THEN unlock_history(p, lock[p], lock_file)
                    ELSE lock_file
    /\ exit_status' = [exit_status EXCEPT ![p] = main(exc_type[p] # "None")]
    /\ UNCHANGED <<download_history_file, output_files, store_vars, run_vars,
                   exc_type, item, save_calls>>

\* __exit__ of the store, finally part: unlock_history; the with statement
\* is left, with the exception of the body if there was one, and main returns
UnlockHistory(p) ==
    /\ pc[p] = "unlocking"
    /\ pc' = [pc EXCEPT ![p] = "closed"]
    /\ lock_file' = unlock_history(p, lock[p], lock_file)
    /\ exit_status' = [exit_status EXCEPT ![p] = main(exc_type[p] # "None")]
    /\ UNCHANGED <<download_history_file, output_files, store_vars, run_vars,
                   exc_type, item, save_calls>>

\* the process of the run ends, with the status main returned: its memory is
\* gone and the operating system closes its descriptors, which drops any lock
\* it still holds
Terminate(p) ==
    /\ pc[p] \in {"closed", "lock_error", "load_error"}
    /\ pc' = [pc EXCEPT ![p] = "idle"]
    /\ lock_file' = lock_file \ {p}
    /\ lock' = [lock EXCEPT ![p] = "None"]
    /\ download_history' = [download_history EXCEPT ![p] = EmptyHistory]
    /\ force_download' = [force_download EXCEPT ![p] = FALSE]
    /\ skip_history' = [skip_history EXCEPT ![p] = FALSE]
    /\ current_file_paths' = [current_file_paths EXCEPT ![p] = {}]
    /\ had_exceptions' = [had_exceptions EXCEPT ![p] = FALSE]
    /\ total_found_files' = [total_found_files EXCEPT ![p] = 0]
    /\ skipped_files' = [skipped_files EXCEPT ![p] = 0]
    /\ downloaded_files' = [downloaded_files EXCEPT ![p] = 0]
    /\ deleted_files' = [deleted_files EXCEPT ![p] = 0]
    /\ exc_type' = [exc_type EXCEPT ![p] = "None"]
    /\ item' = [item EXCEPT ![p] = NoItem]
    /\ save_calls' = [save_calls EXCEPT ![p] = 0]
    /\ exit_status' = [exit_status EXCEPT ![p] = NoStatus]
    /\ UNCHANGED <<download_history_file, output_files>>

\* the inputs a specification draws from: the paths and hashes of the
\* documents the traversal meets, the flags of a run, the number of documents
\* of one pass, and whether the process of a closed run ends before any
\* other run takes a step
Inputs(paths, hashes, forces, skips, max_items, exit_first) ==
    [paths |-> paths, hashes |-> hashes, forces |-> forces, skips |-> skips,
     max_items |-> max_items, exit_first |-> exit_first]

\* run p may take a step
Ready(p, in) == in.exit_first => \A q \in Procs \ {p} : pc[q] # "closed"

\* one step of run p, the remote tree being met item by item
Run(p, in) ==
    \/ /\ Ready(p, in)
       /\ \E force \in in.forces, skip \in in.skips : Enter(p, force, skip)
       /\ UNCHANGED walk_vars
    \/ /\ Ready(p, in)
       /\ total_found_files[p] < in.max_items
       /\ \E file_path \in in.paths, file_id \in FileIds, hash_value \in in.hashes,
             io \in FetchOutcomes :
               ProcessDocument(p, file_path, file_id, hash_value, io)
       /\ UNCHANGED walk_vars
    \/ /\ Ready(p, in)
       /\ \E file_path \in in.paths, file_id \in FileIds, hash_value \in in.hashes :
               ProcessEncrypted(p, file_path, file_id, hash_value)
       /\ UNCHANGED walk_vars
    \/ /\ Ready(p, in)
       /\ ListingFails(p)
       /\ UNCHANGED walk_vars
    \/ /\ Ready(p, in)
       /\ \E exc \in {"None", "Exception"} : BodyEnds(p, exc)
       /\ UNCHANGED walk_vars
    \/ /\ Ready(p, in)
       /\ \E failing \in SUBSET ConvertiblePaths : RemoveDeletedFiles(p, failing)
       /\ UNCHANGED walk_vars
    \/ /\ Ready(p, in)
       /\ \E io \in SaveOutcomes : SaveHistory(p, io)
       /\ UNCHANGED walk_vars
    \/ /\ Ready(p, in)
       /\ UnlockHistory(p)
       /\ UNCHANGED walk_vars
    \/ /\ Terminate(p)
       /\ UNCHANGED walk_vars

\* one run after the other on the output directory
Next == Run(1, Inputs(RemotePaths, Hashes, BOOLEAN, BOOLEAN, MaxItems, FALSE))

Spec == Init /\ [][Next]_vars

\* several runs at the same time on the output directory, all of them using
\* the history (skip_history is a switch for tests).  The process of a run
\* that has left its with statement ends before any other run takes a step:
\* nothing reads the memory of a closed run.
NextConcurrent ==
    \E p \in Procs :
        Run(p, Inputs({PathA, PathB}, Hashes, {FALSE}, {FALSE}, MaxConcurrentItems, TRUE))

SpecConcurrent == Init /\ [][NextConcurrent]_vars

(***************************************************************************)
(* The walk over a remote tree.                                            *)
(***************************************************************************)
PathD == <<"/d", ".oslides">>
PathE == <<"/e", ".odoc", ".bak">>
PathF == <<"/f", ".txt", ".osheet">>

\* the names a document of the tree can have
TreeNames == {PathA, PathB, PathC, PathD, PathE, PathF}

\* what list_folder, shared_with_me and get_teamfolder_info can do: answer,
\* raise, or (list_folder) answer with success false
ListingOutcomes == {"ok", "raises", "not_success"}

\* an item of a listing: a document, with what fetching and writing it will
\* do, or a directory, with what listing it will do and the items it holds
Document(display_path, file_id, hash, encrypted, io) ==
    [content_type |-> "document", display_path |-> display_path, file_id |-> file_id,
     hash |-> hash, encrypted |-> encrypted, io |-> io, listing |-> "none",
     items |-> << >>]
Directory(listing, items) ==
    [content_type |-> "dir", display_path |-> NoName, file_id |-> "dir",
     hash |-> "none", encrypted |-> FALSE, io |-> "none", listing |-> listing,
     items |-> items]

\* a remote tree: My Drive with a document and a folder, the items shared
\* with the user, the team folders
RemoteTree(mydrive, folder, shared, team, doc) ==
    <<Directory(mydrive, <<doc, Directory(folder, <<Document(PathB, "f1", "h2", FALSE, "ok")>>)>>),
      Directory(shared, <<Document(PathA, "f1", "h1", FALSE, "ok")>>),
      Directory(team, <<Directory("ok", << >>)>>)>>

\* the remote trees: every outcome of the listings around one document, and
\* every document under listings that answer, new, changed or unchanged
RemoteTrees ==
    {RemoteTree(mydrive, folder, shared, team, Document(PathD, "f2", "h1", FALSE, "ok")) :
        mydrive \in ListingOutcomes, folder \in ListingOutcomes,
        shared \in {"ok", "raises"}, team \in {"ok", "raises"}}
    \cup
    {RemoteTree("ok", "ok", "ok", "ok", Document(name, "f2", "h2", encrypted, io)) :
        name \in TreeNames, encrypted \in BOOLEAN, io \in FetchOutcomes}
    \cup
    {RemoteTree("ok", "ok", "ok", "ok", Document(PathA, "f2", "h1", FALSE, io)) :
        io \in FetchOutcomes}

\* the with statement is entered and the three download_* calls of main are
\* ahead
EnterTree(p, tree) ==
    /\ Enter(p, FALSE, FALSE)
    /\ pending' = [pending EXCEPT ![p] = IF pc'[p] = "traversing" THEN tree ELSE << >>]
    /\ resp' = [resp EXCEPT ![p] = "none"]

\* a _process_directory that logs an answer with success false and returns
ListDirectory_unchecked(p) ==
    /\ pending[p] # << >>
    /\ Head(pending[p]).content_type = "dir"
    /\ LET dir == Head(pending[p])
       IN  /\ resp' = [resp EXCEPT ![p] = dir.listing]
           /\ IF dir.listing # "raises"
              THEN /\ pc[p] = "traversing"
                   /\ item' = [item EXCEPT ![p] = NoItem]
                   /\ pending' = [pending EXCEPT ![p] =
                          IF dir.listing = "ok" THEN dir.items \o Tail(@) ELSE Tail(@)]
                   /\ UNCHANGED <<shared_vars, store_vars, run_vars, pc, exc_type,
                                  save_calls, exit_status>>
              ELSE /\ ListingFails(p)
                   /\ pending' = [pending EXCEPT ![p] = Tail(@)]

\* _process_directory (download_shared_files, download_teamfolder_files):
\* the listing is asked for; its items are processed next, before what was
\* pending, unless the listing failed
ListDirectory(p) ==
    /\ pending[p] # << >>
    /\ Head(pending[p]).content_type = "dir"
    /\ LET dir == Head(pending[p])
       IN  /\ resp' = [resp EXCEPT ![p] = dir.listing]
           /\ IF dir.listing = "ok"
              THEN /\ pc[p] = "traversing"
                   /\ item' = [item EXCEPT ![p] = NoItem]
                   /\ pending' = [pending EXCEPT ![p] = dir.items \o Tail(@)]
                   /\ UNCHANGED <<shared_vars, store_vars, run_vars, pc, exc_type,
                                  save_calls, exit_status>>
              ELSE /\ ListingFails(p)
                   /\ pending' = [pending EXCEPT ![p] = Tail(@)]

\* a loop over the items of a listing that a failing document ends
VisitDocument_stops(p) ==
    /\ pending[p] # << >>
    /\ Head(pending[p]).content_type = "document"
    /\ LET doc == Head(pending[p])
       IN  /\ IF doc.encrypted
              THEN ProcessEncrypted(p, doc.display_path, doc.file_id, doc.hash)
              ELSE ProcessDocument(p, doc.display_path, doc.file_id, doc.hash, doc.io)
           /\ pending' = [pending EXCEPT ![p] =
                  IF had_exceptions'[p] # had_exceptions[p] THEN << >> ELSE Tail(@)]
    /\ UNCHANGED resp

\* a loop that logs an encrypted document as skipped and processes it all
\* the same
VisitDocument_logs_encrypted(p) ==
    /\ pending[p] # << >>
    /\ Head(pending[p]).content_type = "document"
    /\ LET doc == Head(pending[p])
       IN  ProcessDocument(p, doc.display_path, doc.file_id, doc.hash, doc.io)
    /\ pending' = [pending EXCEPT ![p] = Tail(@)]
    /\ UNCHANGED resp

\* the loop over the items of a listing reaches a document: _process_item
VisitDocument(p) ==
    /\ pending[p] # << >>
    /\ Head(pending[p]).content_type = "document"
    /\ LET doc == Head(pending[p])
       IN  IF doc.encrypted
           THEN ProcessEncrypted(p, doc.display_path, doc.file_id, doc.hash)
           ELSE ProcessDocument(p, doc.display_path, doc.file_id, doc.hash, doc.io)
    /\ pending' = [pending EXCEPT ![p] = Tail(@)]
    /\ UNCHANGED resp

\* the body of the with statement ends: normally once the three download_*
\* calls have returned, or at any time by an exception nothing catches
WalkEnds(p, exc) ==
    /\ exc = "None" => pending[p] = << >>
    /\ BodyEnds(p, exc)
    /\ pending' = [pending EXCEPT ![p] = << >>]
    /\ UNCHANGED resp

\* one step of run p over a remote tree
RunTree(p) ==
    \/ \E tree \in RemoteTrees : EnterTree(p, tree)
    \/ ListDirectory(p)
    \/ VisitDocument(p)
    \/ \E exc \in {"None", "Exception"} : WalkEnds(p, exc)
    \/ /\ \E failing \in SUBSET {PathD} : RemoveDeletedFiles(p, failing)
       /\ UNCHANGED walk_vars
    \/ /\ \E io \in SaveOutcomes : SaveHistory(p, io)
       /\ UNCHANGED walk_vars
    \/ /\ UnlockHistory(p)
       /\ UNCHANGED walk_vars
    \/ /\ Terminate(p)
       /\ UNCHANGED walk_vars

\* the history files and output directories a walk starts from
InitTree ==
    /\ Init
    /\ download_history_file \in
           {NoFile, MetaFile(HISTORY_MAGIC, HISTORY_VERSION, SampleHistory)}
    /\ output_files = OutputPaths

NextTree == RunTree(1)

SpecTree == InitTree /\ [][NextTree]_vars

(***************************************************************************)
(* Runs one after the other over a drive that does not change.             *)
(***************************************************************************)

\* the document of My Drive next to the two documents of RemoteTree: its
\* name and whether it is encrypted
DriveContents == {<<PathD, FALSE>>, <<PathD, TRUE>>, <<PathC, FALSE>>}

\* what the remote does during one run: the answer to the listing of My
\* Drive and the outcome of fetching and writing the document
RunOutcomes ==
    {<<"ok", "ok">>, <<"raises", "ok">>, <<"not_success", "ok">>,
     <<"ok", "fetch_fail">>, <<"ok", "write_fail">>}

\* a history that knows an older version of the document of My Drive
RepeatHistory == (PathD :> Entry("f2", "h1")) @@ SampleHistory

\* the two runs have the same tree ahead, each with its own outcomes
InitRepeat ==
    /\ lock_file = {}
    /\ download_history_file \in
           {NoFile, GarbageFile,
            MetaFile(HISTORY_MAGIC, HISTORY_VERSION, SampleHistory),
            MetaFile(HISTORY_MAGIC, HISTORY_VERSION, RepeatHistory)}
    /\ output_files = OutputPaths \cup {get_offline_name(PathD)}
    /\ lock = [p \in Procs |-> "None"]
    /\ download_history = [p \in Procs |-> EmptyHistory]
    /\ force_download = [p \in Procs |-> FALSE]
    /\ skip_history = [p \in Procs |-> FALSE]
    /\ current_file_paths = [p \in Procs |-> {}]
    /\ had_exceptions = [p \in Procs |-> FALSE]
    /\ total_found_files = [p \in Procs |-> 0]
    /\ skipped_files = [p \in Procs |-> 0]
    /\ downloaded_files = [p \in Procs |-> 0]
    /\ deleted_files = [p \in Procs |-> 0]
    /\ pc = [p \in Procs |-> "idle"]
    /\ exc_type = [p \in Procs |-> "None"]
    /\ item = [p \in Procs |-> NoItem]
    /\ save_calls = [p \in Procs |-> 0]
    /\ exit_status = [p \in Procs |-> NoStatus]
    /\ \E c \in DriveContents, o \in [{1, 2} -> RunOutcomes] :
           pending = [p \in Procs |->
                        IF p \in {1, 2}
                        THEN RemoteTree(o[p][1], "ok", "ok", "ok",
                                        Document(c[1], "f2", "h2", c[2], o[p][2]))
                        ELSE << >>]
    /\ resp = [p \in Procs |-> "none"]

\* run p starts once the runs before it have left their with statement
EnterRepeat(p, force) ==
    /\ \A q \in Procs : q < p => pc[q] = "closed"
    /\ Enter(p, force, FALSE)
    /\ UNCHANGED walk_vars

\* one step of run p over the tree it has ahead; the process of a run that
\* left its with statement normally is kept, so that the next run can be
\* compared with it
RunRepeat(p) ==
    \/ \E force \in BOOLEAN : EnterRepeat(p, force)
    \/ ListDirectory(p)
    \/ VisitDocument(p)
    \/ \E exc \in {"None", "Exception"} : WalkEnds(p, exc)
    \/ /\ \E failing \in SUBSET {PathD} : RemoveDeletedFiles(p, failing)
       /\ UNCHANGED walk_vars
    \/ /\ \E io \in SaveOutcomes : SaveHistory(p, io)
       /\ UNCHANGED walk_vars
    \/ /\ UnlockHistory(p)
       /\ UNCHANGED walk_vars
    \/ /\ pc[p] # "closed"
       /\ Terminate(p)
       /\ UNCHANGED walk_vars

\* a run and the run after it
NextRepeat == RunRepeat(1) \/ RunRepeat(2)

\* every call of a run returns or raises, and the process of a run that
\* raised out of main ends: a step that can be taken is taken
SpecRepeat == InitRepeat /\ [][NextRepeat]_vars /\ WF_vars(NextRepeat)

TypeOK ==
    /\ lock_file \subseteq Procs
    /\ output_files \subseteq OutputPaths
    /\ \A p \in Procs :
        /\ download_history[p] \in Histories
        /\ current_file_paths[p] \subseteq RemotePaths
        /\ total_found_files[p] \in 0..MaxItems
        /\ save_calls[p] \in 0..1
        /\ exit_status[p] \in {NoStatus, 0, 1}


(***************************************************************************)
(* Properties.                                                             *)
(***************************************************************************)

\* the step of run p that ends the traversal part of __exit__
ReconcileStep(p) == pc[p] = "exiting" /\ pc'[p] = "saving"

\* a step of run p after _remove_deleted_files, up to the end of the run
AfterReconcileStep(p) == pc[p] \in {"saving", "unlocking"} /\ pc'[p] # pc[p]

\* the step of run p that processes one document
DocumentStep(p) == total_found_files'[p] = total_found_files[p] + 1

\* the history paths run p has not seen, read from the state
Orphaned(p) == (DOMAIN download_history[p]) \ current_file_paths[p]

\* C1: an output file disappears only in the end-of-run step of a run that had
\* no failure, and only when it is the output of a path that was a key of
\* that run's history and is not among the paths the run has seen; the output
\* of a seen path is never deleted.
C1_DeleteOnlyOrphaned ==
    [][\A f \in output_files \ output_files' :
         \E p \in Procs :
            /\ ReconcileStep(p)
            /\ ~had_exceptions[p]
            /\ \E q \in Orphaned(p) : output_path(q) = f
            /\ \A q \in current_file_paths[p] : output_path(q) # f]_vars

\* a run has deleted the output of an unseen path and kept that of a seen one
C1_Witness ==
    /\ pc[1] = "saving"
    /\ deleted_files[1] = 1
    /\ current_file_paths[1] = {PathA}
    /\ output_path(PathA) \in output_files
    /\ output_path(PathB) \notin output_files

\* C2: when _remove_deleted_files runs, the keys of the history afterwards
\* are the keys before that are among the seen paths, whether or not the
\* output files existed or were deleted, and the entries kept are unchanged.
C2_ReconcileKeepsSeen ==
    [][\A p \in Procs :
         (ReconcileStep(p) /\ exc_type[p] = "None" /\ ~had_exceptions[p]) =>
            /\ DOMAIN download_history'[p] =
                   (DOMAIN download_history[p]) \cap current_file_paths[p]
            /\ \A q \in DOMAIN download_history'[p] :
                   download_history'[p][q] = download_history[p][q]]_vars

\* the entry of an unseen path is gone although it had no output file to delete
C2_Witness ==
    /\ pc[1] = "saving"
    /\ exc_type[1] = "None"
    /\ ~had_exceptions[1]
    /\ deleted_files[1] = 0
    /\ current_file_paths[1] = {PathA}
    /\ DOMAIN download_history[1] = {PathA}
    /\ DOMAIN download_history_file.files = {PathA, PathB}

\* C3: when had_exceptions is set at the end of the traversal, the end of the
\* run changes neither the history mapping nor the output files, and the
\* deleted counter stays 0.
C3_NoReconcileAfterFailure ==
    [][\A p \in Procs :
         /\ (ReconcileStep(p) /\ had_exceptions[p]) =>
               /\ download_history'[p] = download_history[p]
               /\ output_files' = output_files
               /\ deleted_files'[p] = 0
         /\ AfterReconcileStep(p) =>
               /\ download_history'[p] = download_history[p]
               /\ output_files' = output_files
               /\ deleted_files'[p] = deleted_files[p]]_vars

\* a run with a failure has passed the end-of-run step with unseen paths left
\* in its history and their output files on disk
C3_Witness ==
    /\ pc[1] = "saving"
    /\ exc_type[1] = "None"
    /\ had_exceptions[1]
    /\ deleted_files[1] = 0
    /\ PathB \in Orphaned(1)
    /\ output_path(PathB) \in output_files

\* C4: when the body of the run leaves with an exception, the end of the run
\* deletes no output file and removes no history entry, also when
\* had_exceptions is false.
C4_NoReconcileAfterException ==
    [][\A p \in Procs :
         (ReconcileStep(p) /\ exc_type[p] # "None") =>
            /\ download_history'[p] = download_history[p]
            /\ output_files' = output_files
            /\ deleted_files'[p] = deleted_files[p]]_vars

\* a run whose body raised, without a recorded failure, has passed the
\* end-of-run step with an unseen path and its output file left
C4_Witness ==
    /\ pc[1] = "saving"
    /\ exc_type[1] = "Exception"
    /\ ~had_exceptions[1]
    /\ PathB \in Orphaned(1)
    /\ output_path(PathB) \in output_files

\* C5: _remove_deleted_files adds to the deleted counter the number of unseen
\* paths whose output file existed and was deleted; an unseen path whose
\* output file was missing loses its entry without being counted.
C5_DeletedCountsRealDeletions ==
    [][\A p \in Procs :
         (ReconcileStep(p) /\ exc_type[p] = "None" /\ ~had_exceptions[p]) =>
            /\ deleted_files[p] = 0
            /\ deleted_files'[p] =
                  Cardinality({q \in Orphaned(p) :
                                  /\ output_path(q) \in output_files
                                  /\ output_path(q) \notin output_files'})
            /\ \A q \in Orphaned(p) : q \notin DOMAIN download_history'[p]]_vars

\* two unseen paths lost their entries, one output file was deleted, the
\* other was already missing: the counter is 1
C5_Witness ==
    /\ pc[1] = "saving"
    /\ ~had_exceptions[1]
    /\ deleted_files[1] = 1
    /\ current_file_paths[1] = {}
    /\ download_history[1] = EmptyHistory
    /\ DOMAIN download_history_file.files = {PathA, PathB}
    /\ output_files = {}

SameHash(history, file_path, hash_value) ==
    file_path \in DOMAIN history /\ history[file_path].hash = hash_value

\* C7: without force_download, should_download is false exactly when the
\* history has an entry for the path with the same hash, and the traversal
\* skips a document exactly then.
C7_SkipIffSameHash ==
    [][\A p \in Procs :
         /\ \A file_path \in RemotePaths, hash_value \in Hashes :
               should_download(download_history[p], FALSE, file_path, hash_value)
                   = ~SameHash(download_history[p], file_path, hash_value)
         /\ (DocumentStep(p) /\ ~force_download[p]) =>
               /\ skipped_files'[p] \in {skipped_files[p], skipped_files[p] + 1}
               /\ (skipped_files'[p] = skipped_files[p] + 1)
                     <=> SameHash(download_history[p], item'[p].path, item'[p].hash)]_vars

\* a pass without force_download has skipped one document and downloaded another
C7_Witness ==
    /\ pc[1] = "traversing"
    /\ ~force_download[1]
    /\ ~skip_history[1]
    /\ skipped_files[1] = 1
    /\ downloaded_files[1] = 1

\* C8: with force_download, should_download is true for every path and hash,
\* no document is skipped, and a convertible document that is not encrypted
\* is fetched: it is downloaded, or its failure is recorded.
C8_ForceDownloadsAll ==
    [][\A p \in Procs :
         /\ \A file_path \in RemotePaths, hash_value \in Hashes :
               should_download(download_history[p], TRUE, file_path, hash_value)
         /\ (DocumentStep(p) /\ force_download[p]) =>
               /\ skipped_files'[p] = skipped_files[p]
               /\ get_offline_name(item'[p].path) # NoName =>
                     \/ downloaded_files'[p] = downloaded_files[p] + 1
                     \/ had_exceptions'[p]]_vars

\* a forced pass has downloaded a document whose hash is the one the loaded
\* history holds for it
C8_Witness ==
    /\ pc[1] = "traversing"
    /\ force_download[1]
    /\ ~skip_history[1]
    /\ total_found_files[1] = 1
    /\ downloaded_files[1] = 1
    /\ skipped_files[1] = 0
    /\ item[1] = Item(PathA, "f1", "h1", FALSE)
    /\ download_history_file = MetaFile(HISTORY_MAGIC, HISTORY_VERSION, SampleHistory)

\* run p is between its acquisition of the lock and its release
InLockedRegion(p) ==
    /\ ~skip_history[p]
    /\ pc[p] \in {"traversing", "exiting", "saving", "unlocking", "load_error"}

\* the step in which run q fails to acquire the lock, or leaves after that
LockErrorStep(q) ==
    \/ pc[q] # "lock_error" /\ pc'[q] = "lock_error"
    \/ pc[q] = "lock_error" /\ pc'[q] # "lock_error"

\* C9: two runs that use the history are never both between lock acquisition
\* and lock release; the lock is held by exactly the run in that interval; a
\* run whose acquisition fails leaves the lock of the other untouched.
C9_LockExcludes ==
    /\ [](\A p, q \in Procs : (p # q) => ~(InLockedRegion(p) /\ InLockedRegion(q)))
    /\ [](lock_file = {p \in Procs : InLockedRegion(p)})
    /\ [][\A q \in Procs : LockErrorStep(q) => lock_file' = lock_file]_vars

\* one run works under the lock while the other has failed to acquire it
C9_Witness ==
    /\ pc[1] = "traversing"
    /\ total_found_files[1] = 1
    /\ pc[2] = "lock_error"
    /\ lock_file = {1}

\* C10: a run that starts while another run holds the lock ends in the lock
\* error in that same step and only terminates afterwards; it loads nothing,
\* its mapping stays empty, and it changes neither the history file, nor the
\* lock, nor the output files.
C10_LockErrorMutatesNothing ==
    /\ [](\A q \in Procs : pc[q] = "lock_error" =>
             /\ download_history[q] = EmptyHistory
             /\ q \notin lock_file)
    /\ [][\A q \in Procs :
            /\ (/\ pc[q] = "idle" /\ pc'[q] # "idle"
                /\ ~skip_history'[q] /\ lock_file \ {q} # {}) =>
                  /\ pc'[q] = "lock_error"
                  /\ download_history'[q] = EmptyHistory
                  /\ download_history_file' = download_history_file
                  /\ lock_file' = lock_file
                  /\ output_files' = output_files
            /\ (pc[q] = "lock_error" /\ pc'[q] # pc[q]) =>
                  /\ pc'[q] = "idle"
                  /\ download_history_file' = download_history_file
                  /\ output_files' = output_files]_vars

\* a run failed on the lock while a loadable history file was on disk and the
\* holder of the lock was at work
C10_Witness ==
    /\ pc[2] = "lock_error"
    /\ download_history[2] = EmptyHistory
    /\ lock_file = {1}
    /\ pc[1] = "exiting"
    /\ download_history[1] = SampleHistory
    /\ download_history_file = MetaFile(HISTORY_MAGIC, HISTORY_VERSION, SampleHistory)

\* the step of run p that leaves one stage of the with statement
LeavesStage(p, stage) == pc[p] = stage /\ pc'[p] # stage

\* C11: a run that has entered its body holding the lock can only go on to
\* the end of the body, to the end-of-run step, to save_history and to
\* unlock_history, whatever exception the body left with and whatever
\* save_history met; it holds the lock up to unlock_history, which releases
\* it, and a closed run holds no lock.
C11_LockReleasedOnEveryExit ==
    /\ [](\A p \in Procs : pc[p] = "closed" => p \notin lock_file)
    /\ [][\A p \in Procs :
            /\ LeavesStage(p, "traversing") => pc'[p] = "exiting"
            /\ LeavesStage(p, "exiting") => pc'[p] = "saving"
            /\ LeavesStage(p, "saving") => pc'[p] = "unlocking"
            /\ LeavesStage(p, "unlocking") =>
                  /\ pc'[p] = "closed"
                  /\ lock_file' = lock_file \ {p}
            /\ (~skip_history[p] /\ pc[p] \in {"traversing", "exiting", "saving"}) =>
                  p \in lock_file /\ p \in lock_file']_vars

\* a run whose body raised and whose save failed part-way is closed and
\* holds no lock
C11_Witness ==
    /\ pc[1] = "closed"
    /\ ~skip_history[1]
    /\ lock[1] = "FileLock"
    /\ exc_type[1] = "Exception"
    /\ download_history_file = GarbageFile
    /\ lock_file = {}

\* C12: a run whose load_history failed after lock_history acquired the lock
\* does not hold the lock once the failure has left the with statement.
C12_LoadFailureReleasesLock ==
    [](\A p \in Procs : pc[p] = "load_error" => p \notin lock_file)

\* the step in which run p starts
EnterStep(p) == pc[p] = "idle" /\ pc'[p] # "idle"

\* the step in which run p starts, gets the lock and reads the history file
LoadStep(p) == EnterStep(p) /\ ~skip_history'[p] /\ lock_file \ {p} = {}

\* C13: loading a file with a '_meta' section whose magic is not the sentinel,
\* or is missing, raises, and the mapping of the store is and stays empty.
C13_WrongMagicRaises ==
    /\ [][\A p \in Procs :
            (/\ LoadStep(p)
             /\ download_history_file.kind = "meta"
             /\ download_history_file.magic # "SYNOLOGY_OFFICE_EXPORTER") =>
                /\ pc'[p] = "load_error"
                /\ download_history'[p] = EmptyHistory]_vars
    /\ [](\A p \in Procs : pc[p] = "load_error" => download_history[p] = EmptyHistory)

\* a file without magic, holding entries, made the load fail; the mapping is empty
C13_Witness ==
    /\ pc[1] = "load_error"
    /\ download_history_file.kind = "meta"
    /\ download_history_file.magic = "missing"
    /\ download_history_file.files = SampleHistory
    /\ download_history[1] = EmptyHistory

\* C14: loading a file with the right magic raises and leaves the mapping
\* empty when its version is greater than 1, and loads its 'files' section
\* when its version is 1, lower, or not given.
C14_VersionAtMostOwn ==
    [][\A p \in Procs :
         (/\ LoadStep(p)
          /\ download_history_file.kind = "meta"
          /\ download_history_file.magic = "SYNOLOGY_OFFICE_EXPORTER") =>
             IF download_history_file.version > 1
             THEN /\ pc'[p] = "load_error"
                  /\ download_history'[p] = EmptyHistory
             ELSE /\ pc'[p] = "traversing"
                  /\ download_history'[p] = download_history_file.files]_vars

\* a file of version 2 with the right magic made the load fail
C14_Witness ==
    /\ pc[1] = "load_error"
    /\ download_history_file.kind = "meta"
    /\ download_history_file.magic = HISTORY_MAGIC
    /\ download_history_file.version = 2
    /\ download_history[1] = EmptyHistory

\* C15: loading a file that parses but has no '_meta' section raises; the run
\* never goes on with an empty history.
C15_NoMetaRaises ==
    [][\A p \in Procs :
         (LoadStep(p) /\ download_history_file.kind = "plain") =>
            pc'[p] = "load_error"]_vars

\* C16: loading a file that cannot be parsed raises; the run then only ends,
\* without traversal, and changes neither the history file nor the output files.
C16_UnparseableAborts ==
    [][\A p \in Procs :
         /\ (LoadStep(p) /\ download_history_file.kind = "garbage") =>
               /\ pc'[p] = "load_error"
               /\ download_history'[p] = EmptyHistory
               /\ download_history_file' = download_history_file
         /\ LeavesStage(p, "load_error") =>
               /\ pc'[p] = "idle"
               /\ download_history_file' = download_history_file
               /\ output_files' = output_files]_vars

\* an unparseable file made the load fail
C16_Witness ==
    /\ pc[1] = "load_error"
    /\ download_history_file = GarbageFile
    /\ download_history[1] = EmptyHistory
    /\ total_found_files[1] = 0

\* C17: with skip_history, or without a history file, the run starts its
\* traversal with an empty mapping.
C17_SkipOrAbsentLoadsEmpty ==
    [][\A p \in Procs :
         (/\ EnterStep(p)
          /\ \/ skip_history'[p]
             \/ LoadStep(p) /\ download_history_file.kind = "absent") =>
            /\ pc'[p] = "traversing"
            /\ download_history'[p] = EmptyHistory]_vars

\* a run with skip_history started on an unparseable history file
C17_Witness ==
    /\ pc[1] = "traversing"
    /\ skip_history[1]
    /\ download_history_file = GarbageFile
    /\ download_history[1] = EmptyHistory
    /\ total_found_files[1] = 0

\* C18: for the mapping of every store, what save_history writes when it
\* succeeds is loaded by a fresh store without error and gives the same
\* mapping; a save that changes the file to something parseable writes the
\* metadata load_history accepts and the mapping of the store; a file so
\* written loads as its 'files' section.
C18_RoundTrip ==
    /\ [](\A p \in Procs :
            LET saved == save_history(download_history[p], FALSE, download_history_file, "ok")
                r == load_history(EmptyHistory, FALSE, saved)
            IN  ~r.raised /\ r.download_history = download_history[p])
    /\ [][\A p \in Procs :
            /\ (/\ LeavesStage(p, "saving")
                /\ download_history_file' \notin {download_history_file, GarbageFile}) =>
                  download_history_file' =
                      MetaFile("SYNOLOGY_OFFICE_EXPORTER", 1, download_history[p])
            /\ (/\ LoadStep(p)
                /\ download_history_file.kind = "meta"
                /\ download_history_file.magic = "SYNOLOGY_OFFICE_EXPORTER"
                /\ download_history_file.version = 1) =>
                  /\ pc'[p] = "traversing"
                  /\ download_history'[p] = download_history_file.files]_vars

\* a fresh store has loaded a mapping that an earlier run built and saved
C18_Witness ==
    /\ pc[1] = "traversing"
    /\ ~skip_history[1]
    /\ total_found_files[1] = 0
    /\ download_history_file.kind = "meta"
    /\ download_history[1] = download_history_file.files
    /\ DOMAIN download_history[1] = {PathA}
    /\ download_history[1][PathA] = Entry("f1", "h2")

\* C19: save_history is not called before the end of the run and has been
\* called once when the run unlocks and closes; the call is the step right
\* before unlock_history, whatever had_exceptions and the exception of the
\* body are; the history file changes only in that call.
C19_SaveOnceAtEnd ==
    /\ [](\A p \in Procs :
            /\ pc[p] \in {"traversing", "exiting", "saving"} => save_calls[p] = 0
            /\ pc[p] \in {"unlocking", "closed"} => save_calls[p] = 1)
    /\ [][/\ \A p \in Procs :
                save_calls'[p] > save_calls[p] =>
                   /\ pc[p] = "saving"
                   /\ pc'[p] = "unlocking"
                   /\ lock_file' = lock_file
          /\ download_history_file' # download_history_file =>
                \E p \in Procs : save_calls'[p] = save_calls[p] + 1]_vars

\* a run with a recorded failure, whose body raised, has saved once and closed
C19_Witness ==
    /\ pc[1] = "closed"
    /\ save_calls[1] = 1
    /\ had_exceptions[1]
    /\ exc_type[1] = "Exception"
    /\ download_history_file = MetaFile(HISTORY_MAGIC, HISTORY_VERSION, download_history[1])
    /\ download_history[1] # SampleHistory

\* C20: the step of save_history leaves the exception of the body and
\* had_exceptions as they are, whatever the file system did, and leads to
\* unlock_history, which releases the lock and leaves them as they are too.
C20_SaveFailureSwallowed ==
    [][\A p \in Procs :
         /\ LeavesStage(p, "saving") =>
               /\ exc_type'[p] = exc_type[p]
               /\ had_exceptions'[p] = had_exceptions[p]
               /\ pc'[p] = "unlocking"
         /\ LeavesStage(p, "unlocking") =>
               /\ exc_type'[p] = exc_type[p]
               /\ had_exceptions'[p] = had_exceptions[p]
               /\ p \notin lock_file']_vars

\* a run without any failure of its own closed after its save failed part-way
C20_Witness ==
    /\ pc[1] = "closed"
    /\ ~skip_history[1]
    /\ exc_type[1] = "None"
    /\ ~had_exceptions[1]
    /\ downloaded_files[1] = 1
    /\ download_history_file = GarbageFile
    /\ lock_file = {}

\* s is what t ends with
IsSuffix(s, t) ==
    Len(s) <= Len(t) /\ SubSeq(t, Len(t) - Len(s) + 1, Len(t)) = s

\* a step of the walk of run p that leaves the run in its body
WalkStep(p) ==
    /\ pc[p] = "traversing" /\ pc'[p] = "traversing"
    /\ pending[p] # << >> /\ pending'[p] # pending[p]

\* the step of run p that asks for a listing and gets outcome
ListingStep(p, outcome) ==
    /\ WalkStep(p)
    /\ Head(pending[p]).content_type = "dir"
    /\ Head(pending[p]).listing = outcome

\* the step of run p that fetches the document at the head of the walk, or
\* tries to
FetchStep(p) ==
    /\ WalkStep(p)
    /\ LET doc == Head(pending[p])
       IN  /\ doc.content_type = "document" /\ ~doc.encrypted
           /\ should_download(download_history[p], force_download[p],
                              doc.display_path, doc.hash)
           /\ get_offline_name(doc.display_path) # NoName

\* C21: a step of the walk in which an item fails (a listing, the fetch or
\* the write of a document) leaves the run in its body with every item that
\* was pending behind the failed one still pending; every step of the walk
\* keeps them pending; and the body ends normally only when nothing is
\* pending.
C21_FailureKeepsSiblings ==
    /\ [][\A p \in Procs :
            (/\ pc[p] = "traversing"
             /\ pending[p] # << >>
             /\ had_exceptions'[p] /\ ~had_exceptions[p])
            => /\ pc'[p] = "traversing"
               /\ pending'[p] = Tail(pending[p])]_vars
    /\ [][\A p \in Procs :
            WalkStep(p) => IsSuffix(Tail(pending[p]), pending'[p])]_vars
    /\ [][\A p \in Procs :
            (LeavesStage(p, "traversing") /\ exc_type'[p] = "None")
            => pending[p] = << >>]_vars

\* the document of My Drive failed, and the folder next to it and the shared
\* items were processed after it
C21_Witness ==
    /\ pc[1] = "traversing"
    /\ had_exceptions[1]
    /\ total_found_files[1] = 3
    /\ item[1].path = PathA
    /\ Len(pending[1]) = 1

\* C22: within a run had_exceptions never goes back to false; a listing that
\* raises, a fetch or a write that fails, and an output file that could not
\* be deleted each leave it true.
C22_HadExceptionsSetAndKept ==
    /\ [][\A p \in Procs :
            (had_exceptions[p] /\ pc'[p] # "idle") => had_exceptions'[p]]_vars
    /\ [][\A p \in Procs :
            ListingStep(p, "raises") => had_exceptions'[p]]_vars
    /\ [][\A p \in Procs :
            (FetchStep(p) /\ Head(pending[p]).io # "ok") => had_exceptions'[p]]_vars
    /\ [][\A p \in Procs :
            (/\ ReconcileStep(p)
             /\ may_remove_deleted_files(exc_type[p], had_exceptions[p])
             /\ \E q \in Orphaned(p) :
                    /\ output_path(q) \in output_files
                    /\ output_path(q) \in output_files')
            => had_exceptions'[p]]_vars

\* a run whose only failure was an output file it could not delete
C22_Witness ==
    /\ pc[1] = "saving"
    /\ had_exceptions[1]
    /\ exc_type[1] = "None"
    /\ PathD \notin DOMAIN download_history[1]
    /\ output_path(PathD) \in output_files
    /\ PathD \notin current_file_paths[1]
    /\ total_found_files[1] = 3

PlainDocumentStep(p) ==
    /\ WalkStep(p)
    /\ Head(pending[p]).content_type = "document"
    /\ ~Head(pending[p]).encrypted

\* C24: the step that processes a document that is not encrypted leaves its
\* path in current_file_paths, whether the document is downloaded, skipped
\* for its unchanged hash, not convertible, or fails; and within a run
\* current_file_paths loses no path.
C24_SeenPathsRecorded ==
    /\ [][\A p \in Procs :
            PlainDocumentStep(p)
            => Head(pending[p]).display_path \in current_file_paths'[p]]_vars
    /\ [][\A p \in Procs :
            pc'[p] # "idle" => current_file_paths[p] \subseteq current_file_paths'[p]]_vars

\* a document whose fetch failed and a document skipped for its hash are both
\* among the paths the run has seen
C24_Witness ==
    /\ pc[1] = "traversing"
    /\ had_exceptions[1]
    /\ skipped_files[1] = 1
    /\ downloaded_files[1] = 0
    /\ item[1].path = PathB
    /\ current_file_paths[1] = {PathD, PathB}

\* the step of run p that meets the encrypted document at the head of the walk
EncryptedStep(p) ==
    /\ WalkStep(p)
    /\ Head(pending[p]).content_type = "document"
    /\ Head(pending[p]).encrypted

\* C25: the step that meets an encrypted document writes no output file,
\* downloads nothing, leaves the history and had_exceptions as they were,
\* whatever fetching the document would have done, and the walk goes on.
C25_EncryptedSkipped ==
    [][\A p \in Procs :
        EncryptedStep(p)
        => /\ output_files' = output_files
           /\ download_history'[p] = download_history[p]
           /\ downloaded_files'[p] = downloaded_files[p]
           /\ had_exceptions'[p] = had_exceptions[p]
           /\ pc'[p] = "traversing"
           /\ pending'[p] = Tail(pending[p])]_vars

\* an encrypted document with a changed hash, whose fetch would fail, was met
\* and the run has no failure
C25_Witness ==
    /\ pc[1] = "traversing"
    /\ item[1] = Item(PathA, "f2", "h2", TRUE)
    /\ PathA \in DOMAIN download_history[1]
    /\ download_history[1][PathA].hash = "h1"
    /\ ~had_exceptions[1]
    /\ downloaded_files[1] = 0
    /\ Head(pending[1]).content_type = "dir"

\* C26: for a convertible document that should_download accepts, a fetch and
\* a write that succeed leave the entry of its path holding its file id and
\* its hash, and its output file written; a fetch or a write that fails
\* leaves the mapping as it was, so that should_download still accepts the
\* document.  For a document that should_download refuses nothing is fetched
\* (no failure of the fetch shows), nothing is written and the mapping is as
\* it was.
C26_EntryFollowsDownload ==
    /\ [][\A p \in Procs :
            FetchStep(p)
            => LET doc == Head(pending[p])
               IN  IF doc.io = "ok"
                   THEN /\ doc.display_path \in DOMAIN download_history'[p]
                        /\ download_history'[p][doc.display_path]
                               = Entry(doc.file_id, doc.hash)
                        /\ output_path(doc.display_path) \in output_files'
                        /\ downloaded_files'[p] = downloaded_files[p] + 1
                   ELSE /\ download_history'[p] = download_history[p]
                        /\ downloaded_files'[p] = downloaded_files[p]
                        /\ should_download(download_history'[p], force_download'[p],
                                           doc.display_path, doc.hash)]_vars
    /\ [][\A p \in Procs :
            (/\ PlainDocumentStep(p)
             /\ LET doc == Head(pending[p])
                IN  ~should_download(download_history[p], force_download[p],
                                     doc.display_path, doc.hash))
            => /\ download_history'[p] = download_history[p]
               /\ output_files' = output_files
               /\ downloaded_files'[p] = downloaded_files[p]
               /\ had_exceptions'[p] = had_exceptions[p]
               /\ skipped_files'[p] = skipped_files[p] + 1]_vars

\* the document at a path of the history came with another file id and
\* another hash, and was downloaded: the entry holds both
C26_Witness ==
    /\ pc[1] = "traversing"
    /\ item[1] = Item(PathA, "f2", "h2", FALSE)
    /\ downloaded_files[1] = 1
    /\ ~had_exceptions[1]
    /\ download_history[1] = (PathA :> Entry("f2", "h2") @@ PathB :> Entry("f1", "h2"))

\* the file ids add_history_entry is tried with
C29_FileIds == {"f1", "f2"}

\* C29: on every mapping a run holds, add_history_entry gives a mapping with
\* the path as a key holding the new file id and hash, remove_history_entry
\* one without the path, equal to the mapping when the path was no key of it,
\* and both leave every other key with its entry; the steps of the run that
\* add and remove entries change the mapping of the run in that way.
C29_UpsertAndRemoveFrame ==
    /\ [](\A p \in Procs, file_path \in TreeNames, file_id \in C29_FileIds,
            hash_value \in Hashes :
            LET history == download_history[p]
                added == add_history_entry(history, file_path, file_id, hash_value)
                removed == remove_history_entry(history, file_path)
            IN  /\ DOMAIN added = DOMAIN history \cup {file_path}
                /\ added[file_path] = Entry(file_id, hash_value)
                /\ \A q \in DOMAIN history \ {file_path} : added[q] = history[q]
                /\ DOMAIN removed = DOMAIN history \ {file_path}
                /\ \A q \in DOMAIN removed : removed[q] = history[q]
                /\ file_path \notin DOMAIN history => removed = history)
    /\ [][\A p \in Procs :
            (FetchStep(p) /\ Head(pending[p]).io = "ok")
            => LET file_path == Head(pending[p]).display_path
               IN  /\ DOMAIN download_history'[p]
                          = DOMAIN download_history[p] \cup {file_path}
                   /\ \A q \in DOMAIN download_history[p] \ {file_path} :
                          download_history'[p][q] = download_history[p][q]]_vars
    /\ [][\A p \in Procs :
            ReconcileStep(p)
            => /\ DOMAIN download_history'[p] \subseteq DOMAIN download_history[p]
               /\ \A q \in DOMAIN download_history'[p] :
                      download_history'[p][q] = download_history[p][q]]_vars

\* the end-of-run step removed the entry of one path and the entries of the
\* other paths are as they were
C29_Witness ==
    /\ pc[1] = "saving"
    /\ deleted_files[1] = 1
    /\ PathD \notin DOMAIN download_history[1]
    /\ download_history[1] = SampleHistory
    /\ current_file_paths[1] = {PathA, PathB, PathC}

\* the names get_offline_name is tried with: the names of the documents of
\* the remote trees, a name that is a suffix and nothing else, names whose
\* last chunk only looks like a Synology suffix, the empty name
C28_Names ==
    TreeNames \cup {<<".odoc">>, <<"/g", ".ODOC">>, <<"/h", "osheet">>, << >>}

\* the name without its last chunk
Stem(name) == SubSeq(name, 1, Len(name) - 1)

\* what the conversion rule gives for a name
OfflineName(name) ==
    IF name = << >> THEN NoName
    ELSE CASE name[Len(name)] = ".osheet" -> Stem(name) \o <<".xlsx">>
           [] name[Len(name)] = ".odoc" -> Stem(name) \o <<".docx">>
           [] name[Len(name)] = ".oslides" -> Stem(name) \o <<".pptx">>
           [] OTHER -> NoName

\* C28: get_offline_name gives, for a name ending in .osheet, .odoc or
\* .oslides, the name with its stem kept and that suffix replaced by .xlsx,
\* .docx or .pptx, and nothing for any other name; the output file a run
\* writes for a document is the one of that name, and a document whose name
\* has no such suffix is neither written nor entered in the history.
C28_OfflineName ==
    /\ [](\A name \in C28_Names : get_offline_name(name) = OfflineName(name))
    /\ [][\A p \in Procs :
            (FetchStep(p) /\ Head(pending[p]).io # "fetch_fail")
            => output_files'
                   = output_files \cup {OfflineName(Head(pending[p]).display_path)}]_vars
    /\ [][\A p \in Procs :
            (PlainDocumentStep(p) /\ OfflineName(Head(pending[p]).display_path) = NoName)
            => /\ output_files' = output_files
               /\ download_history'[p] = download_history[p]]_vars

\* the document /f.txt.osheet was downloaded to /f.txt.xlsx
C28_Witness ==
    /\ pc[1] = "traversing"
    /\ item[1].path = PathF
    /\ downloaded_files[1] = 1
    /\ <<"/f", ".txt", ".xlsx">> \in output_files

\* the stages of a run, in the order of the with statement
StageOrder ==
    {<<"idle", "lock_error">>, <<"idle", "load_error">>, <<"idle", "traversing">>,
     <<"traversing", "exiting">>, <<"exiting", "saving">>, <<"saving", "unlocking">>,
     <<"unlocking", "closed">>,
     <<"closed", "idle">>, <<"lock_error", "idle">>, <<"load_error", "idle">>}

\* C30: a run goes through its stages in order; the step that starts the
\* body has acquired the lock and then loaded the mapping from the history
\* file, a run that did not get the lock has loaded nothing; the end-of-run
\* step comes before save_history, so that the mapping save_history writes
\* has no path the end-of-run step removed; the lock is held while
\* save_history runs and released after it.
C30_StagesInOrder ==
    /\ [][\A p \in Procs : pc'[p] # pc[p] => <<pc[p], pc'[p]>> \in StageOrder]_vars
    /\ [][\A p \in Procs :
            /\ (EnterStep(p) /\ pc'[p] = "traversing" /\ ~skip_history'[p])
               => /\ p \in lock_file'
                  /\ download_history'[p]
                         = load_history(EmptyHistory, FALSE,
                                        download_history_file).download_history
                  /\ current_file_paths'[p] = {}
            /\ (EnterStep(p) /\ pc'[p] = "lock_error")
               => /\ p \notin lock_file'
                  /\ download_history'[p] = EmptyHistory]_vars
    /\ [](\A p \in Procs :
            (/\ pc[p] \in {"saving", "unlocking"}
             /\ \/ exc_type[p] = "None" /\ ~had_exceptions[p]
                \/ deleted_files[p] > 0)
            => DOMAIN download_history[p] \subseteq current_file_paths[p])
    /\ [][\A p \in Procs :
            (LeavesStage(p, "saving") /\ ~skip_history[p])
            => /\ p \in lock_file /\ p \in lock_file'
               /\ download_history'[p] = download_history[p]
               /\ download_history_file' \in
                      {download_history_file, GarbageFile,
                       MetaFile(HISTORY_MAGIC, HISTORY_VERSION, download_history[p])}]_vars
    /\ [][\A p \in Procs :
            LeavesStage(p, "unlocking") => save_calls[p] = 1 /\ p \notin lock_file']_vars

\* the end-of-run step deleted the output of a path, save_history has written
\* the mapping without that path, and the lock is still held
C30_Witness ==
    /\ pc[1] = "unlocking"
    /\ 1 \in lock_file
    /\ deleted_files[1] = 1
    /\ current_file_paths[1] = {PathA}
    /\ DOMAIN download_history[1] = {PathA}
    /\ download_history_file
           = MetaFile(HISTORY_MAGIC, HISTORY_VERSION, download_history[1])
    /\ output_path(PathB) \notin output_files

\* main of run p has returned
Returned(p) == pc[p] \in {"closed", "lock_error", "load_error"}

\* C27: main returns 0 exactly when the run left its with statement without
\* an exception and with had_exceptions false, and another status otherwise;
\* the end-of-run step of a run that had a failure removes no output file.
C27_ExitStatusTellsFailure ==
    /\ [](\A p \in Procs :
            Returned(p)
            => (exit_status[p] = 0
                    <=> (pc[p] = "closed" /\ exc_type[p] = "None" /\ ~had_exceptions[p])))
    /\ [][\A p \in Procs :
            (ReconcileStep(p) /\ had_exceptions[p]) => output_files' = output_files]_vars

\* a history file load_history cannot accept
Unloadable(file) ==
    \/ file.kind = "garbage"
    \/ /\ file.kind = "meta"
       /\ \/ file.magic # "SYNOLOGY_OFFICE_EXPORTER"
          \/ file.version > 1

\* C31: the step in which load_history fails changes neither the history
\* file nor the output files; a run whose load failed has processed no
\* document, deleted nothing and called save_history not once, and its only
\* further step is the end of its process, which changes neither the history
\* file nor the output files.
C31_LoadFailureTouchesNothing ==
    /\ [][\A p \in Procs :
            (LoadStep(p) /\ Unloadable(download_history_file))
            => /\ pc'[p] = "load_error"
               /\ download_history_file' = download_history_file
               /\ output_files' = output_files]_vars
    /\ [](\A p \in Procs :
            pc[p] = "load_error"
            => /\ total_found_files[p] = 0
               /\ current_file_paths[p] = {}
               /\ downloaded_files[p] = 0
               /\ deleted_files[p] = 0
               /\ save_calls[p] = 0)
    /\ [][\A p \in Procs :
            pc[p] = "load_error"
            => /\ pc'[p] \in {"load_error", "idle"}
               /\ pc'[p] = "idle"
                    => /\ download_history_file' = download_history_file
                       /\ output_files' = output_files]_vars

\* a run found a history file of a newer version, with output files of
\* earlier runs in place: its load failed
C31_Witness ==
    /\ pc[1] = "load_error"
    /\ download_history_file = MetaFile(HISTORY_MAGIC, HISTORY_VERSION + 1, SampleHistory)
    /\ output_files = OutputPaths
    /\ save_calls[1] = 0
    /\ exit_status[1] = 1

\* C32: a step of the body that meets a recoverable error (it sets
\* had_exceptions) raises nothing: the run stays in its body and no exception
\* is on its way to __exit__; a failing deletion and a failing save raise
\* nothing either; so main returns through its except clause only for a run
\* that failed to get the lock or to load the history, or whose body was left
\* by an exception that is none of these errors.
C32_RecoverableErrorsDoNotPropagate ==
    /\ [][\A p \in Procs :
            (pc[p] = "traversing" /\ had_exceptions'[p] /\ ~had_exceptions[p])
            => pc'[p] = "traversing" /\ exc_type'[p] = "None"]_vars
    /\ [][\A p \in Procs :
            exc_type'[p] # exc_type[p]
            => \/ LeavesStage(p, "traversing") /\ had_exceptions'[p] = had_exceptions[p]
               \/ pc'[p] = "idle"]_vars
    /\ [](\A p \in Procs :
            Returned(p)
            => (exit_status[p] = 1
                    <=> (pc[p] \in {"lock_error", "load_error"} \/ exc_type[p] = "Exception")))

\* a listing failed and a later document was still processed; the body
\* returned, the run is closed and main returned without an exception
C32_Witness ==
    /\ pc[1] = "closed"
    /\ had_exceptions[1]
    /\ exc_type[1] = "None"
    /\ exit_status[1] = 0
    /\ resp[1] = "ok"
    /\ PathB \notin current_file_paths[1]
    /\ PathA \in current_file_paths[1]

\* 1 when the condition holds, 0 otherwise
Count(condition) == IF condition THEN 1 ELSE 0

C34_SkipHistoryTouchesNothing ==
    /\ [][\A p \in Procs :
            (EnterStep(p) /\ skip_history'[p])
            => /\ pc'[p] = "traversing"
               /\ download_history'[p] = EmptyHistory]_vars
    /\ [](\A p \in Procs :
            (skip_history[p] /\ pc[p] # "idle")
            => p \notin lock_file /\ lock[p] = "None")
    /\ [][\A p \in Procs :
            (skip_history'[p] \/ skip_history[p])
            => /\ download_history_file' = download_history_file
               /\ lock_file' = lock_file]_vars

\* a run with skip_history downloaded a document, went through save_history
\* and unlock_history, and the unparseable history file is as it was
C34_Witness ==
    /\ pc[1] = "closed"
    /\ skip_history[1]
    /\ downloaded_files[1] = 1
    /\ save_calls[1] = 1
    /\ download_history_file = GarbageFile
    /\ lock_file = {}

\* C35: after the step in which a run calls save_history the history file
\* holds what it held before or the mapping of the run, complete, and a fresh
\* store loads it without an error if it could load the file before.
C35_SaveIsAllOrNothing ==
    [][\A p \in Procs :
        (LeavesStage(p, "saving") /\ ~skip_history[p])
        => /\ download_history_file' \in
                  {download_history_file,
                   MetaFile(HISTORY_MAGIC, HISTORY_VERSION, download_history[p])}
           /\ ~load_history(EmptyHistory, FALSE, download_history_file).raised
                  => ~load_history(EmptyHistory, FALSE, download_history_file').raised]_vars

\* C36: with every run using the history, a step that changes the history
\* file is the save_history step of a run that holds the lock, alone, before
\* and after the step; that run has not yet called unlock_history, and calls
\* it only after save_history has been called.
C36_WriteUnderLock ==
    /\ [][download_history_file' # download_history_file
            => \E p \in Procs :
                   /\ LeavesStage(p, "saving")
                   /\ pc'[p] = "unlocking"
                   /\ lock[p] = "FileLock"
                   /\ lock_file = {p}
                   /\ lock_file' = {p}]_vars
    /\ [](\A p \in Procs :
            pc[p] \in {"unlocking", "closed"} => save_calls[p] = 1)
    /\ [][\A p \in Procs :
            (pc[p] = "closed" /\ pc'[p] # "idle")
            => download_history_file' = download_history_file]_vars

\* run 1 has written the history file and still holds the lock, while run 2
\* was refused the lock
C36_Witness ==
    /\ pc[1] = "unlocking"
    /\ lock_file = {1}
    /\ downloaded_files[1] = 1
    /\ download_history_file
           = MetaFile(HISTORY_MAGIC, HISTORY_VERSION, download_history[1])
    /\ pc[2] = "lock_error"

\* the mapping run p loaded: the history file does not change before the run
\* saves
Loaded(p) ==
    load_history(EmptyHistory, skip_history[p], download_history_file).download_history

\* C37: up to the end-of-run step, every entry of the mapping of a run is an
\* entry the run loaded or the entry of a path the run has seen, so the paths
\* of the mapping the run has not seen were all loaded; the end-of-run step
\* keeps the entry and the output file of every path the run has seen, those
\* it downloaded included; and the end-of-run step of a run that loaded an
\* empty mapping deletes nothing and removes no entry.
C37_OrphansWereLoaded ==
    /\ [](\A p \in Procs :
            pc[p] \in {"traversing", "exiting"}
            => /\ \A q \in DOMAIN download_history[p] :
                      \/ q \in current_file_paths[p]
                      \/ q \in DOMAIN Loaded(p) /\ download_history[p][q] = Loaded(p)[q]
               /\ Orphaned(p) \subseteq DOMAIN Loaded(p))
    /\ [][\A p \in Procs :
            ReconcileStep(p)
            => /\ \A q \in current_file_paths[p] \cap DOMAIN download_history[p] :
                      /\ q \in DOMAIN download_history'[p]
                      /\ download_history'[p][q] = download_history[p][q]
               /\ \A q \in current_file_paths[p] :
                      output_path(q) \in output_files => output_path(q) \in output_files'
               /\ Loaded(p) = EmptyHistory
                      => /\ output_files' = output_files
                         /\ download_history'[p] = download_history[p]
                         /\ deleted_files'[p] = 0]_vars

\* a pass downloaded the changed document of one path and did not meet the
\* other path of its history: after the end-of-run step the first has its
\* entry and its output file, the second has neither
C37_Witness ==
    /\ pc[1] = "saving"
    /\ downloaded_files[1] = 1
    /\ deleted_files[1] = 1
    /\ current_file_paths[1] = {PathA}
    /\ download_history[1] = (PathA :> Entry("f1", "h2"))
    /\ output_files = {output_path(PathA)}
    /\ Loaded(1) = SampleHistory

\* run p left its with statement without a failure and without an exception
Clean(p) == pc[p] = "closed" /\ ~had_exceptions[p] /\ exc_type[p] = "None"

\* the history file holds the mapping of run p
SavedBy(p) ==
    download_history_file = MetaFile(HISTORY_MAGIC, HISTORY_VERSION, download_history[p])

\* C38: when a run has left its with statement without a failure and without
\* an exception and the history file holds its mapping, the next run over the
\* same tree, without force_download, fetches no document, counts no download
\* and no deletion, leaves the output files as they are, works on the mapping
\* of the run before it, unchanged, and writes that mapping back or, when its
\* write fails, the rest of a write.
C38_SecondPassChangesNothing ==
    [][\A p \in Procs, q \in Procs :
         ( /\ q = p + 1
           /\ Clean(p)
           /\ SavedBy(p)
           /\ pc[q] \in {"idle", "traversing", "exiting", "saving"}
           /\ ~force_download'[q] )
         => /\ ~FetchStep(q)
            /\ downloaded_files'[q] = 0
            /\ deleted_files'[q] = 0
            /\ output_files' = output_files
            /\ pc'[q] # "idle" => download_history'[q] = download_history[p]
            /\ download_history_file' \in {download_history_file, GarbageFile}]_vars

\* the first run downloaded the three documents of the tree into an empty
\* history; the second run met the three of them, skipped them and saved the
\* same mapping
C38_Witness ==
    /\ Clean(1) /\ downloaded_files[1] = 3
    /\ Clean(2) /\ total_found_files[2] = 3 /\ skipped_files[2] = 3
    /\ downloaded_files[2] = 0 /\ deleted_files[2] = 0
    /\ download_history[2] = download_history[1]
    /\ SavedBy(2)

\* C39: a run that has entered its with statement and walks its tree ends
\* closed, with the lock released, whatever the listings, the fetches, the
\* writes, the deletions and the save do; and a run that holds the lock comes
\* to a state where it does not hold it, the run whose load failed included
\* (its process ends).
C39_RunsEndClosed ==
    /\ \A p \in Procs :
           (pc[p] = "traversing") ~> (pc[p] = "closed" /\ p \notin lock_file)
    /\ \A p \in Procs : (p \in lock_file) ~> (p \notin lock_file)

\* a run is closed without the lock after an exception of its body, a
\* failure during the walk and a save that failed part-way
C39_Witness ==
    /\ pc[1] = "closed"
    /\ 1 \notin lock_file
    /\ lock[1] = "FileLock"
    /\ exc_type[1] = "Exception"
    /\ had_exceptions[1]
    /\ download_history_file = GarbageFile

=============================================================================
